---- MODULE Spec2Model ----
(***************************************************************************)
(* Model of triton::backend::rapids::Batch                                 *)
(* (cpp/include/rapids_triton/batch/batch.hpp).                            *)
(*                                                                         *)
(* A Batch is built over a list of requests, one response slot per         *)
(* request, an input collector, an output responder and a borrowed stream. *)
(* get_input gathers a named input, get_output declares a batch-wide       *)
(* output buffer, finalize drains the responder and synchronizes.          *)
(*                                                                         *)
(* A stream is modelled as its submission log: the sequence of commands    *)
(* enqueued on it, each stamped with the global order of issue.            *)
(***************************************************************************)
EXTENDS Integers, Sequences, FiniteSets, TLC

\* ------------------------------------------------------------------ bounds
MaxRequests == 2        \* requests in a batch: 0..MaxRequests
MaxCalls    == 3        \* calls made on one Batch after construction

\* --------------------------------------------------------------- universes
RequestShapes == {<<1, 4>>, <<2, 4>>, <<1, 5>>}    \* per-request shapes of input "x"
MemoryTypes   == {"HostMemory", "DeviceMemory"}  \* memory/types.hpp
\* the (memory type, device id) pairs a buffer can be in
Locations     == {<<"HostMemory", 0>>, <<"DeviceMemory", 0>>, <<"DeviceMemory", 1>>}
Streams       == {1}                             \* stream handles a caller may supply
DefaultStream == 0                               \* the legacy default stream, never supplied
OtherStreams  == {2}                             \* stream handles supplied to a second Batch
AllStreams    == Streams \cup OtherStreams \cup {DefaultStream}
InputNames    == {"x"}
OutputNames   == {"y"}
OutputShapes  == {<<>>, <<2>>}                   \* model-metadata shape of output "y"
OobValues     == {-1, -2}                        \* what a read past a buffer's end may yield
SizeofT       == 4                               \* sizeof(T), T = float

VARIABLES
  raw_requests,   \* constructor argument: the request handles (each with its shard's shape)
  stream_arg,     \* constructor argument: the stream handle
  output_shape,   \* model metadata: FindBatchOutput(name)->OutputShape()
  requests_,      \* Batch::requests_
  responses_,     \* Batch::responses_ (each response: the outputs written into it)
  collector_,     \* Batch::collector_
  responder_,     \* Batch::responder_ (the shared BackendOutputResponder)
  stream_,        \* Batch::stream_
  queues,         \* per stream: the commands submitted to it, in submission order
  syncs,          \* the streams cudaStreamSynchronize was called on, in order
  calls,          \* number of calls made on the Batch
  finalize_calls, \* number of finalize() calls made (history)
  outputs_declared, \* number of output tensors get_output has returned (history)
  last,           \* outcome of the last call (history)
  construction,   \* whether the constructor completed, and the allocation that failed
  lifetime,       \* who still holds the shared responder, and whether it was released
  other           \* a second Batch of the same process, while the first is being driven

vars == <<raw_requests, stream_arg, output_shape, requests_, responses_,
          collector_, responder_, stream_, queues, syncs, calls, finalize_calls,
          outputs_declared, last, construction, lifetime, other>>

\* ----------------------------------------------------------------- helpers
RECURSIVE ProductOf(_)
ProductOf(shape) == IF shape = <<>> THEN 1 ELSE Head(shape) * ProductOf(Tail(shape))

\* the product taken as zero for a shape without dimensions
Prod_EmptyIsZero(shape) == IF shape = <<>> THEN 0 ELSE ProductOf(shape)

RECURSIVE Prod(_)
\* std::reduce(shape.begin(), shape.end(), std::size_t{1}, std::multiplies<>())
Prod(shape) == IF shape = <<>> THEN 1 ELSE Head(shape) * Prod(Tail(shape))

RECURSIVE BatchSum(_)
\* sum of the batch-axis sizes of a list of requests
BatchSum(reqs) == IF reqs = <<>> THEN 0 ELSE Head(reqs).shape[1] + BatchSum(Tail(reqs))

Requests      == [shape : RequestShapes]

RECURSIVE SeqsUpTo(_, _)
SeqsUpTo(S, n) ==
  IF n = 0 THEN {<<>>}
  ELSE LET shorter == SeqsUpTo(S, n - 1)
       IN  shorter \cup {Append(s, x) : s \in {t \in shorter : Len(t) = n - 1}, x \in S}

NullTensor == [shape |-> <<>>, size |-> 0, mem |-> "none", dev |-> -1, stream |-> -1,
               alias |-> FALSE, name |-> "none", responder |-> "none"]

\* where a call asked for its buffer, and where the collector said the data is
NoLocation == [mem |-> "none", dev |-> -1]
At(memory_type, device_id) == [mem |-> memory_type, dev |-> device_id]

\* the outcome of a call: what it was asked, whether it returned or threw, the
\* Tensor it returned, and (finalize) what the responder reported
NoCall == [op |-> "none", status |-> "none", error |-> "none", message |-> "none",
           has_tensor |-> FALSE, tensor |-> NullTensor, asked |-> NoLocation,
           reported |-> NoLocation, report |-> FALSE, after_finalize |-> FALSE,
           size_bytes |-> -1, resident |-> FALSE, gather_failed |-> FALSE]

Returned(op, asked, reported, t) ==
  [NoCall EXCEPT !.op = op, !.status = "ok", !.has_tensor = TRUE, !.tensor = t,
                 !.asked = asked, !.reported = reported,
                 !.after_finalize = finalize_calls > 0]

\* throw TritonException(kind, message)
Thrown(op, asked, reported, kind, message) ==
  [NoCall EXCEPT !.op = op, !.status = "error", !.error = kind, !.message = message,
                 !.asked = asked, !.reported = reported,
                 !.after_finalize = finalize_calls > 0]

\* ------------------------------------------------------------------ streams
RECURSIVE TotalLen(_, _)
TotalLen(q, S) == IF S = {} THEN 0
                  ELSE LET s == CHOOSE x \in S : TRUE IN Len(q[s]) + TotalLen(q, S \ {s})

Issued(q) == TotalLen(q, AllStreams)

RECURSIVE Enqueue(_, _, _, _)
\* n commands of one kind submitted to stream s, after everything issued so far
Enqueue(q, s, kind, n) ==
  IF n = 0 THEN q
  ELSE Enqueue([q EXCEPT ![s] = Append(@, [kind |-> kind, id |-> Issued(q) + 1])], s, kind, n - 1)

\* ------------------------------------------------------------- construction
\* construct_responses (triton/responses.hpp): one new, empty response per request
construct_responses(reqs) == [i \in 1..Len(reqs) |-> <<>>]

\* Batch::Batch with the responses built over all requests but the last
Batch_ShortResponses(raw, count, stream_in) ==
  LET reqs == SubSeq(raw, 1, count)
  IN  [requests_  |-> reqs,
       responses_ |-> construct_responses(SubSeq(reqs, 1, Len(reqs) - 1)),
       collector_ |-> [count |-> count, stream |-> stream_in],
       responder_ |-> [count |-> count, stream |-> stream_in, pending |-> <<>>],
       stream_    |-> stream_in]

\* Batch::Batch with the responder left on the default stream
Batch_ResponderDefaultStream(raw, count, stream_in) ==
  LET reqs == SubSeq(raw, 1, count)
  IN  [requests_  |-> reqs,
       responses_ |-> construct_responses(reqs),
       collector_ |-> [count |-> count, stream |-> stream_in],
       responder_ |-> [count |-> count, stream |-> DefaultStream, pending |-> <<>>],
       stream_    |-> stream_in]

\* Batch::Batch keeping the stream in storage that every Batch shares, where
\* the Batch built last has left its own
Batch_SharedStream(raw, count, stream_in) ==
  LET reqs == SubSeq(raw, 1, count)
      shared == CHOOSE t \in OtherStreams : TRUE
  IN  [requests_  |-> reqs,
       responses_ |-> construct_responses(reqs),
       collector_ |-> [count |-> count, stream |-> shared],
       responder_ |-> [count |-> count, stream |-> shared, pending |-> <<>>],
       stream_    |-> shared]

\* Batch::Batch: the member initialisers
Batch(raw, count, stream_in) ==
  LET reqs == SubSeq(raw, 1, count)
  IN  [requests_  |-> reqs,
       responses_ |-> construct_responses(reqs),
       collector_ |-> [count |-> count, stream |-> stream_in],
       responder_ |-> [count |-> count, stream |-> stream_in, pending |-> <<>>],
       stream_    |-> stream_in]

\* construct_responses throwing on the allocation of response fail_at (0: none
\* fails): the responses it had built when the exception left it
ResponsesBuilt(reqs, fail_at) ==
  IF fail_at = 0 THEN construct_responses(reqs)
  ELSE construct_responses(SubSeq(reqs, 1, fail_at - 1))

\* a constructor that swallows the failure and keeps the responses built so far
Constructed_Partial(fail_at) == TRUE

\* Batch::Batch: an exception thrown by a member initialiser leaves the
\* constructor, so a Batch exists only when every response was allocated
Constructed(fail_at) == fail_at = 0

\* the Batch is there to be called: constructed and not yet destroyed
Usable == construction.ok /\ lifetime.batch_alive

\* ------------------------------------------------------- responder ownership
\* std::make_shared<BackendOutputResponder>: the Batch holds the first reference
MakeShared == [batch_alive |-> TRUE, outputs_alive |-> 0, use_count |-> 1,
               released |-> FALSE]

\* no responder was ever made
NeverMade == [batch_alive |-> FALSE, outputs_alive |-> 0, use_count |-> 0,
              released |-> TRUE]

\* the responder lent to the OutputTensor without a share in its ownership
ShareResponder_Borrowed(use_count) == use_count

\* Batch::get_output: responder_ is copied into the OutputTensor, which takes a
\* share in its ownership
ShareResponder(use_count) == use_count + 1

\* std::shared_ptr: n references dropped; the object is released with the last
DropReferences(l, n) ==
  [l EXCEPT !.use_count = @ - n, !.released = (l.use_count - n <= 0)]

\* ---------------------------------------------------------- shape resolution
\* requests whose non-batch dimensions differ from those of the first request
Mismatched(reqs) == {i \in 1..Len(reqs) : Tail(reqs[i].shape) # Tail(reqs[1].shape)}

\* get_triton_input_shape (triton/input.hpp): the batch axis is summed over the
\* requests, every other dimension must be the same in all of them
get_triton_input_shape(reqs, name) ==
  IF Mismatched(reqs) # {}
  THEN [ok |-> FALSE, error |-> "IncompatibleShape", message |-> "incompatible shapes",
        index |-> (CHOOSE i \in Mismatched(reqs) : \A j \in Mismatched(reqs) : i <= j) - 1,
        shape |-> <<>>]
  ELSE [ok |-> TRUE, error |-> "none", message |-> "none", index |-> -1,
        shape |-> <<BatchSum(reqs)>> \o Tail(reqs[1].shape)]

\* Batch::get_input_shape resolving over the first request only
get_input_shape_FirstOnly(name) ==
  IF requests_ # <<>>
  THEN get_triton_input_shape(SubSeq(requests_, 1, 1), name)
  ELSE [ok |-> TRUE, error |-> "none", message |-> "none", index |-> -1, shape |-> <<>>]

\* Batch::get_input_shape summing the batch axis without comparing the other dimensions
get_input_shape_Unchecked(name) ==
  IF requests_ # <<>>
  THEN [ok |-> TRUE, error |-> "none", message |-> "none", index |-> -1,
        shape |-> <<BatchSum(requests_)>> \o Tail(requests_[1].shape)]
  ELSE [ok |-> TRUE, error |-> "none", message |-> "none", index |-> -1, shape |-> <<>>]

\* Batch::get_input_shape giving a batch axis of size zero for an empty request list
get_input_shape_EmptyIsZeroRows(name) ==
  IF requests_ # <<>>
  THEN get_triton_input_shape(requests_, name)
  ELSE [ok |-> TRUE, error |-> "none", message |-> "none", index |-> -1, shape |-> <<0>>]

\* Batch::get_input_shape
get_input_shape(name) ==
  IF requests_ # <<>>
  THEN get_triton_input_shape(requests_, name)
  ELSE [ok |-> TRUE, error |-> "none", message |-> "none", index |-> -1, shape |-> <<>>]

\* narrow<std::size_t>(coord): the value, or a failure when it does not fit
narrow(coord) == IF coord >= 0 THEN [ok |-> TRUE, value |-> coord]
                 ELSE [ok |-> FALSE, value |-> 0]

\* Batch::get_output_shape: the metadata shape of the output, coordinate by coordinate
get_output_shape(name) ==
  LET triton_result == output_shape
  IN  IF \E k \in 1..Len(triton_result) : ~narrow(triton_result[k]).ok
      THEN [ok |-> FALSE, error |-> "Internal", shape |-> <<>>]
      ELSE [ok |-> TRUE, error |-> "none",
            shape |-> [k \in 1..Len(triton_result) |-> narrow(triton_result[k]).value]]

\* ------------------------------------------------------------ input collector
\* BackendInputCollector::ProcessTensor with one allowed location; what it may do:
\*  - every shard is already contiguous in the allowed location (resident): with a
\*    null destination the memory is returned as it is, with a destination buffer
\*    the shards are copied into it;
\*  - otherwise one copy per shard is enqueued on the collector's stream into a
\*    buffer whose location the collector reports;
\*  - or it fails and returns an error, leaving the out-parameters as the caller
\*    initialised them (no buffer, zero bytes, the requested location).
ProcessTensor(name, buffer, size_bytes, memory_type, device_id) ==
  {[ok |-> TRUE, resident |-> TRUE,
    copies |-> IF buffer = "nullptr" THEN 0 ELSE collector_.count,
    bytes |-> size_bytes, mem |-> memory_type, dev |-> device_id,
    alias |-> buffer = "nullptr"]}
  \cup
  {[ok |-> TRUE, resident |-> FALSE, copies |-> collector_.count, bytes |-> size_bytes,
    mem |-> loc[1], dev |-> loc[2], alias |-> FALSE] : loc \in Locations}
  \cup
  {[ok |-> FALSE, resident |-> FALSE, copies |-> 0, bytes |-> 0,
    mem |-> memory_type, dev |-> device_id, alias |-> FALSE]}

\* a destination buffer of the caller's own handed to the collector
GatherDestination_Own == "buffer"

\* Batch::get_input, the destination handed to the collector: none, so that the
\* data is returned without a copy when that is possible
GatherDestination == "nullptr"

\* the outcome of get_input annotated with what it asked of the collector and what
\* the collector did
Gathered(outcome, size_bytes, r) ==
  [outcome EXCEPT !.size_bytes = size_bytes, !.resident = r.resident,
                  !.gather_failed = ~r.ok]

\* the location test comparing the memory type only
WrongLocation_MemTypeOnly(reported_mem_type, reported_device_id, memory_type, device_id) ==
  reported_mem_type # memory_type

\* Batch::get_input, the location test
WrongLocation(reported_mem_type, reported_device_id, memory_type, device_id) ==
  reported_mem_type # memory_type \/ reported_device_id # device_id

\* Batch::get_input, the Buffer and Tensor built over the collected data
InputTensor(shape, r) ==
  [shape |-> shape, size |-> r.bytes, mem |-> r.mem, dev |-> r.dev, stream |-> stream_,
   alias |-> r.alias, name |-> "none", responder |-> "none"]

\* Batch::get_input
GetInput(name, memory_type, device_id) ==
  /\ Usable
  /\ calls < MaxCalls
  /\ calls' = calls + 1
  /\ LET res == get_input_shape(name)
     IN  IF ~res.ok
         THEN /\ last' = Thrown("get_input", At(memory_type, device_id), NoLocation,
                                 res.error, res.message)
              /\ UNCHANGED queues
         ELSE LET size_bytes == SizeofT * Prod(res.shape)
              IN  \E r \in ProcessTensor(name, GatherDestination, size_bytes,
                                         memory_type, device_id) :
                    /\ queues' = Enqueue(queues, collector_.stream, "gather", r.copies)
                    /\ last' = Gathered(
                                 IF WrongLocation(r.mem, r.dev, memory_type, device_id)
                                 THEN Thrown("get_input", At(memory_type, device_id),
                                             At(r.mem, r.dev), "Internal",
                                             "data collected in wrong location")
                                 ELSE Returned("get_input", At(memory_type, device_id),
                                               At(r.mem, r.dev), InputTensor(res.shape, r)),
                                 size_bytes, r)
  /\ UNCHANGED <<raw_requests, stream_arg, output_shape, requests_, responses_, collector_,
                 responder_, stream_, syncs, finalize_calls, outputs_declared,
                 construction, lifetime, other>>

\* ------------------------------------------------------------ output declaring
\* the OutputTensor built by Batch::get_output: shape, Buffer<T>(buffer_size,
\* memory_type, device_id, stream_), the shared responder and the output's name
OutputTensor(shape, buffer_size, memory_type, device_id, name) ==
  [shape |-> shape, size |-> buffer_size, mem |-> memory_type, dev |-> device_id,
   stream |-> stream_, alias |-> FALSE, name |-> name, responder |-> "responder_"]

\* Batch::get_output
GetOutput(name, memory_type, device_id) ==
  /\ Usable
  /\ calls < MaxCalls
  /\ calls' = calls + 1
  /\ LET res == get_output_shape(name)
     IN  IF ~res.ok
         THEN /\ last' = Thrown("get_output", At(memory_type, device_id), NoLocation,
                                 res.error, "invalid narrowing")
              /\ UNCHANGED <<responder_, outputs_declared, lifetime>>
         ELSE LET buffer_size == Prod(res.shape)
                  t == OutputTensor(res.shape, buffer_size, memory_type, device_id, name)
              IN  /\ responder_' = [responder_ EXCEPT !.pending = Append(@, t)]
                  /\ outputs_declared' = outputs_declared + 1
                  /\ lifetime' = [lifetime EXCEPT
                                    !.outputs_alive = @ + 1,
                                    !.use_count = ShareResponder(@)]
                  /\ last' = Returned("get_output", At(memory_type, device_id), NoLocation, t)
  /\ UNCHANGED <<raw_requests, stream_arg, output_shape, requests_, responses_, collector_,
                 stream_, queues, syncs, finalize_calls, construction, other>>

\* the default stream handed out in place of the Batch's own
stream_Default == DefaultStream

\* Batch::stream
stream == stream_

\* the compute stage enqueues a kernel on the stream the Batch hands out
Compute ==
  /\ Usable
  /\ calls < MaxCalls
  /\ calls' = calls + 1
  /\ queues' = Enqueue(queues, stream, "compute", 1)
  /\ last' = [NoCall EXCEPT !.op = "compute", !.status = "ok",
                            !.after_finalize = finalize_calls > 0]
  /\ UNCHANGED <<raw_requests, stream_arg, output_shape, requests_, responses_, collector_,
                 responder_, stream_, syncs, finalize_calls, outputs_declared,
                 construction, lifetime, other>>

\* ------------------------------------------------------------ output responder
\* first row of request i in a batch-wide buffer
Offset(reqs, i) == BatchSum(SubSeq(reqs, 1, i - 1))

\* elements of one example of the output
PerExample == Prod(output_shape)

\* element idx of a buffer holding buf_size elements; element k holds the value k,
\* a read past the end is undefined and yields g
ReadElem(buf_size, idx, g) == IF idx < buf_size THEN idx ELSE g

\* the elements of batch-wide tensor t copied into the response of request i
Slice(reqs, t, i, g) ==
  [k \in 1..(reqs[i].shape[1] * PerExample) |->
     ReadElem(t.size, Offset(reqs, i) * PerExample + k - 1, g)]

\* one batch-wide output scattered to every response; dst[i] is where the serving
\* layer placed the output buffer of response i
ScatterOne(reqs, resps, t, dst, g) ==
  [i \in 1..Len(resps) |->
     Append(resps[i], [name |-> t.name, data |-> Slice(reqs, t, i, g),
                       mem |-> dst[i], src_mem |-> t.mem])]

RECURSIVE ScatterAll(_, _, _, _, _)
ScatterAll(reqs, resps, pending, dst, g) ==
  IF pending = <<>> THEN resps
  ELSE ScatterAll(reqs, ScatterOne(reqs, resps, Head(pending), dst, g), Tail(pending), dst, g)

\* copies that touch device memory are asynchronous, host to host ones are not
AsyncCopies(pending, dst) ==
  Cardinality({c \in (1..Len(pending)) \X (DOMAIN dst) :
                 pending[c[1]].mem = "DeviceMemory" \/ dst[c[2]] = "DeviceMemory"})

\* BackendOutputResponder::Finalize: scatters every recorded output into the
\* responses, enqueues the asynchronous copies on the responder's stream and
\* reports whether it enqueued any
ResponderScatter(dst, g) ==
  ScatterAll(SubSeq(raw_requests, 1, responder_.count), responses_, responder_.pending, dst, g)

ResponderEnqueue(dst) ==
  Enqueue(queues, responder_.stream, "scatter", AsyncCopies(responder_.pending, dst))

ResponderReport(dst) == AsyncCopies(responder_.pending, dst) > 0

\* the synchronization taken whatever the responder reports
SyncNeeded_Always(report) == TRUE

\* the synchronization taken when the responder reports no work
SyncNeeded_Inverted(report) == ~report

\* Buffer<T>: the byte length of a buffer built with `size` elements of T
BufferBytes(size) == size * SizeofT

\* Batch::finalize, the test that guards cudaStreamSynchronize
SyncNeeded(report) == report

\* Batch::finalize
Finalize ==
  /\ Usable
  /\ calls < MaxCalls
  /\ calls' = calls + 1
  /\ finalize_calls' = finalize_calls + 1
  /\ \E dst \in [1..Len(responses_) -> MemoryTypes], g \in OobValues :
       /\ responses_' = ResponderScatter(dst, g)
       /\ queues' = ResponderEnqueue(dst)
       /\ responder_' = [responder_ EXCEPT !.pending = <<>>]
       /\ syncs' = IF SyncNeeded(ResponderReport(dst)) THEN Append(syncs, stream_) ELSE syncs
       /\ last' = [NoCall EXCEPT !.op = "finalize", !.status = "ok",
                                 !.report = ResponderReport(dst),
                                 !.after_finalize = finalize_calls > 0]
  /\ UNCHANGED <<raw_requests, stream_arg, output_shape, requests_, collector_, stream_,
                 outputs_declared, construction, lifetime, other>>

\* ------------------------------------------------------------------ lifetimes
\* an OutputTensor goes out of scope and drops its share of the responder
DestroyTensor ==
  /\ construction.ok
  /\ lifetime.outputs_alive > 0
  /\ lifetime' = DropReferences([lifetime EXCEPT !.outputs_alive = @ - 1],
                                ShareResponder(0))
  /\ UNCHANGED <<raw_requests, stream_arg, output_shape, requests_, responses_, collector_,
                 responder_, stream_, queues, syncs, calls, finalize_calls,
                 outputs_declared, last, construction, other>>

\* the Batch goes out of scope and drops its reference to the responder
DestroyBatch ==
  /\ Usable
  /\ lifetime' = DropReferences([lifetime EXCEPT !.batch_alive = FALSE], 1)
  /\ UNCHANGED <<raw_requests, stream_arg, output_shape, requests_, responses_, collector_,
                 responder_, stream_, queues, syncs, calls, finalize_calls,
                 outputs_declared, last, construction, other>>

\* ------------------------------------------------------------- a second Batch
\* the state that belongs to one Batch
Parked ==
  [raw_requests |-> raw_requests, stream_arg |-> stream_arg, requests_ |-> requests_,
   responses_ |-> responses_, collector_ |-> collector_, responder_ |-> responder_,
   stream_ |-> stream_, finalize_calls |-> finalize_calls,
   outputs_declared |-> outputs_declared, construction |-> construction,
   lifetime |-> lifetime]

\* a Batch built and not yet driven
Fresh(raw, stream_in) ==
  LET b == Batch(raw, Len(raw), stream_in)
  IN  [raw_requests |-> raw, stream_arg |-> stream_in, requests_ |-> b.requests_,
       responses_ |-> b.responses_, collector_ |-> b.collector_,
       responder_ |-> b.responder_, stream_ |-> b.stream_, finalize_calls |-> 0,
       outputs_declared |-> 0, construction |-> [ok |-> TRUE, failed_at |-> 0],
       lifetime |-> MakeShared]

\* there is no second Batch
NoBatch ==
  [raw_requests |-> <<>>, stream_arg |-> DefaultStream, requests_ |-> <<>>,
   responses_ |-> <<>>, collector_ |-> [count |-> 0, stream |-> DefaultStream],
   responder_ |-> [count |-> 0, stream |-> DefaultStream, pending |-> <<>>],
   stream_ |-> DefaultStream, finalize_calls |-> 0, outputs_declared |-> 0,
   construction |-> [ok |-> FALSE, failed_at |-> 0], lifetime |-> NeverMade]

\* the caller turns from one Batch to the other: the next calls are made on the
\* Batch that was waiting
Switch ==
  /\ other.construction.ok
  /\ other' = Parked
  /\ raw_requests' = other.raw_requests
  /\ stream_arg' = other.stream_arg
  /\ requests_' = other.requests_
  /\ responses_' = other.responses_
  /\ collector_' = other.collector_
  /\ responder_' = other.responder_
  /\ stream_' = other.stream_
  /\ finalize_calls' = other.finalize_calls
  /\ outputs_declared' = other.outputs_declared
  /\ construction' = other.construction
  /\ lifetime' = other.lifetime
  /\ UNCHANGED <<output_shape, queues, syncs, calls, last>>

\* -------------------------------------------------------------- specification
\* the state after Batch::Batch, whether it completed or threw
InitBatch ==
  /\ raw_requests \in SeqsUpTo(Requests, MaxRequests)
  /\ stream_arg \in Streams
  /\ output_shape \in OutputShapes
  /\ queues = [s \in AllStreams |-> <<>>]
  /\ syncs = <<>>
  /\ calls = 0
  /\ finalize_calls = 0
  /\ outputs_declared = 0
  /\ \E fail_at \in 0..Len(raw_requests) :
       LET b == Batch(raw_requests, Len(raw_requests), stream_arg)
       IN  /\ construction = [ok |-> Constructed(fail_at), failed_at |-> fail_at]
           /\ IF Constructed(fail_at)
              THEN /\ requests_ = b.requests_
                   /\ responses_ = IF fail_at = 0 THEN b.responses_
                                   ELSE ResponsesBuilt(b.requests_, fail_at)
                   /\ collector_ = b.collector_
                   /\ responder_ = b.responder_
                   /\ stream_ = b.stream_
                   /\ lifetime = MakeShared
                   /\ last = NoCall
              ELSE /\ requests_ = NoBatch.requests_
                   /\ responses_ = NoBatch.responses_
                   /\ collector_ = NoBatch.collector_
                   /\ responder_ = NoBatch.responder_
                   /\ stream_ = NoBatch.stream_
                   /\ lifetime = NeverMade
                   /\ last = Thrown("Batch", NoLocation, NoLocation, "AllocationFailure",
                                    "response allocation failed")

Init ==
  /\ InitBatch
  /\ other = NoBatch

Next ==
  \/ \E name \in InputNames, loc \in Locations : GetInput(name, loc[1], loc[2])
  \/ \E name \in OutputNames, loc \in Locations : GetOutput(name, loc[1], loc[2])
  \/ Compute
  \/ Finalize

Spec == Init /\ [][Next]_vars

\* the Batch and the Tensors it returned, with their destruction
NextLife ==
  \/ Next
  \/ DestroyTensor
  \/ DestroyBatch

\* lifetimes do not depend on what the requests hold: one request at most
InitLife ==
  /\ Init
  /\ Len(raw_requests) <= 1

SpecLife == InitLife /\ [][NextLife]_vars

\* two Batches of one request each on distinct streams, driven in any interleaving
InitTwo ==
  /\ InitBatch
  /\ construction.ok
  /\ Len(raw_requests) = 1
  /\ \E stream_in \in OtherStreams :
       other = Fresh(<<[shape |-> <<2, 4>>]>>, stream_in)

NextTwo ==
  \/ Next
  \/ Switch

SpecTwo == InitTwo /\ [][NextTwo]_vars

\* ==================================================================== claims
\* every command submitted so far, as <<stream, position in that stream's queue>>
Cmds == UNION {{<<s, p>> : p \in 1..Len(queues[s])} : s \in AllStreams}
Cmd(c) == queues[c[1]][c[2]]

RECURSIVE RowsBefore(_)
\* number of batch rows that belong to the requests before request i
RowsBefore(i) == IF i <= 1 THEN 0 ELSE raw_requests[i - 1].shape[1] + RowsBefore(i - 1)

TotalBatchSize == RowsBefore(Len(raw_requests) + 1)

\* requests disagree on a non-batch dimension of the input
Disagree == \E i, j \in 1..Len(raw_requests) :
              Tail(raw_requests[i].shape) # Tail(raw_requests[j].shape)

\* C1: the response list has exactly one entry per request, index-aligned with the
\* request list, right after construction and after any sequence of get_input,
\* get_output and finalize calls.
C1_OneResponsePerRequest ==
  construction.ok
    => /\ Len(responses_) = Len(raw_requests)
       /\ DOMAIN responses_ = DOMAIN requests_

\* C1 witness: a batch of two requests that has declared an output and finalized,
\* with both responses written.
C1_Witness ==
  /\ Len(raw_requests) = 2
  /\ finalize_calls > 0
  /\ \A i \in 1..2 : responses_[i] # <<>>

\* C2: once finalize() has been called, every later get_input or get_output fails
\* with ContractViolation, returns no Tensor, enqueues no copy and leaves the
\* Batch's state unchanged.
C2_NoGatherOrDeclareAfterFinalize ==
  [][(finalize_calls > 0 /\ calls' = calls + 1 /\ last'.op \in {"get_input", "get_output"})
       => /\ last'.status = "error"
          /\ last'.error = "ContractViolation"
          /\ ~last'.has_tensor
          /\ queues' = queues
          /\ UNCHANGED <<requests_, responses_, collector_, responder_, stream_>>]_vars

\* C3: a second finalize() is reported as a fatal ContractViolation error and
\* enqueues no further scatter copies and no further stream synchronization.
C3_SecondFinalizeRejected ==
  [][(finalize_calls > 0 /\ finalize_calls' = finalize_calls + 1)
       => /\ last'.status = "error"
          /\ last'.error = "ContractViolation"
          /\ queues' = queues
          /\ syncs' = syncs
          /\ responses_' = responses_]_vars

\* C4: finalize() synchronizes the Batch's stream exactly when the responder's
\* Finalize reports that it enqueued asynchronous scatter work, and a Batch on
\* which no output was ever declared is finalized without a synchronization.
C4_SyncIffScatterEnqueued ==
  [][finalize_calls' = finalize_calls + 1
       => /\ last'.report <=> Issued(queues') > Issued(queues)
          /\ last'.report => syncs' = Append(syncs, stream_arg)
          /\ ~last'.report => syncs' = syncs
          /\ outputs_declared = 0 => syncs' = syncs]_vars

\* C4 witness: a finalize that scattered through device memory and synchronized,
\* and (same state) one synchronization only.
C4_Witness ==
  /\ last.op = "finalize"
  /\ last.report
  /\ syncs = <<stream_arg>>
  /\ \E c \in Cmds : Cmd(c).kind = "scatter"

\* C5: get_input never returns a Tensor whose buffer is in another memory space or
\* on another device than asked for: when the collector reports a different
\* location the call fails with the internal wrong-location error and no Tensor.
C5_InputInRequestedLocation ==
  last.op = "get_input" /\ last.reported # NoLocation
    => IF last.reported = last.asked
       THEN /\ last.has_tensor
            /\ last.tensor.mem = last.asked.mem
            /\ last.tensor.dev = last.asked.dev
       ELSE /\ ~last.has_tensor
            /\ last.status = "error"
            /\ last.error = "Internal"
            /\ last.message = "data collected in wrong location"

\* C5 witness: the collector put the data in the requested memory type but on
\* another device, and get_input threw.
C5_Witness ==
  /\ last.op = "get_input"
  /\ last.status = "error"
  /\ last.reported.mem = last.asked.mem
  /\ last.reported.dev # last.asked.dev

\* C6: when the requests agree on every non-batch dimension of an input, the
\* Tensor get_input returns has the sum of the per-request batch-axis sizes as its
\* batch axis and the common per-request dimensions after it.
C6_UnifiedInputShape ==
  (last.op = "get_input" /\ last.has_tensor /\ raw_requests # <<>> /\ ~Disagree)
    => /\ Len(last.tensor.shape) = Len(raw_requests[1].shape)
       /\ last.tensor.shape[1] = TotalBatchSize
       /\ \A i \in 1..Len(raw_requests) : Tail(last.tensor.shape) = Tail(raw_requests[i].shape)

\* C6 witness: requests of shapes [2,4] and [1,4] gathered into a Tensor of shape [3,4].
C6_Witness ==
  /\ raw_requests = <<[shape |-> <<2, 4>>], [shape |-> <<1, 4>>]>>
  /\ last.op = "get_input"
  /\ last.has_tensor
  /\ last.tensor.shape = <<3, 4>>

\* C7: when two requests disagree on a non-batch dimension of an input, get_input
\* fails with IncompatibleShape, returns no Tensor, and no gather copy is ever
\* enqueued for it.
C7_IncompatibleShapeBeforeGather ==
  Disagree
    => /\ last.op = "get_input"
         => /\ last.status = "error"
            /\ last.error = "IncompatibleShape"
            /\ ~last.has_tensor
       /\ \A c \in Cmds : Cmd(c).kind # "gather"

\* C7 witness: get_input has thrown IncompatibleShape on requests [1,4], [1,5].
C7_Witness ==
  /\ raw_requests = <<[shape |-> <<1, 4>>], [shape |-> <<1, 5>>]>>
  /\ last.op = "get_input"
  /\ last.error = "IncompatibleShape"
  /\ calls = 2

\* C8: get_output returns a Tensor whose shape is the metadata shape of the output
\* scaled by the total batch size of the Batch, over a buffer of that many
\* elements in the requested memory space and device.
C8_OutputShapeScaledByBatch ==
  (last.op = "get_output" /\ last.has_tensor)
    => /\ last.tensor.shape = <<TotalBatchSize>> \o output_shape
       /\ last.tensor.size = TotalBatchSize * Prod(output_shape)
       /\ last.tensor.mem = last.asked.mem
       /\ last.tensor.dev = last.asked.dev

\* the elements of the batch-wide output buffer that belong to request i: its rows
\* start after the rows of the requests before it (element k of the buffer holds k)
OwnElements(i) ==
  [k \in 1..(raw_requests[i].shape[1] * Prod(output_shape)) |->
     RowsBefore(i) * Prod(output_shape) + k - 1]

\* C9: after finalize, what was written into the response of request i for a
\* declared output is exactly the sub-range of the batch-wide buffer that belongs
\* to request i, whatever the memory spaces of source and destination.
C9_ScatterOwnRows ==
  \A i \in DOMAIN responses_ : \A k \in DOMAIN responses_[i] :
    responses_[i][k].data = OwnElements(i)

\* C10: collector, responder and every Buffer use the one stream supplied at
\* construction, so a gather copy issued before a compute command precedes it in
\* that stream, and a compute command issued before a scatter copy precedes it.
C10_SingleStreamOrder ==
  construction.ok
    => /\ collector_.stream = stream_arg
       /\ responder_.stream = stream_arg
       /\ stream = stream_arg
       /\ last.has_tensor => last.tensor.stream = stream_arg
       /\ \A k \in DOMAIN responder_.pending : responder_.pending[k].stream = stream_arg
       /\ \A a, b \in Cmds :
            (/\ <<Cmd(a).kind, Cmd(b).kind>>
                  \in {<<"gather", "compute">>, <<"compute", "scatter">>}
             /\ Cmd(a).id < Cmd(b).id)
              => a[1] = stream_arg /\ b[1] = stream_arg /\ a[2] < b[2]

\* C10 witness: a compute command followed, in the supplied stream, by a scatter copy.
C10_Witness ==
  \E a, b \in Cmds :
    /\ Cmd(a).kind = "compute"
    /\ Cmd(b).kind = "scatter"
    /\ a[1] = stream_arg /\ b[1] = stream_arg
    /\ a[2] < b[2]

\* C11: when every shard of an input is already contiguous in the requested memory
\* space and device, get_input enqueues no copy and returns a Tensor whose buffer
\* aliases the existing memory.
C11_ZeroCopyWhenResident ==
  [][(calls' = calls + 1 /\ last'.op = "get_input" /\ last'.resident)
       => /\ queues' = queues
          /\ last'.has_tensor
          /\ last'.tensor.alias
          /\ At(last'.tensor.mem, last'.tensor.dev) = last'.asked]_vars

\* C11 witness: a batch of two requests whose shards were resident, gathered
\* with no command on any stream.
C11_Witness ==
  /\ Len(raw_requests) = 2
  /\ last.op = "get_input"
  /\ last.resident
  /\ last.tensor.alias
  /\ Cmds = {}

\* C12: get_input and get_output never synchronize the stream (the copies of
\* get_input may be pending when it returns); the only synchronization is the one
\* finalize takes when the responder reports enqueued scatter work.
C12_OnlyFinalizeSynchronizes ==
  [][/\ (calls' = calls + 1 /\ last'.op \in {"get_input", "get_output"}) => syncs' = syncs
     /\ syncs' # syncs => /\ last'.op = "finalize"
                          /\ finalize_calls' = finalize_calls + 1
                          /\ last'.report
                          /\ Issued(queues') > Issued(queues)]_vars

\* C12 witness: get_input has returned a Tensor with its gather copies enqueued
\* and no synchronization taken.
C12_Witness ==
  /\ last.op = "get_input"
  /\ last.has_tensor
  /\ \E c \in Cmds : Cmd(c).kind = "gather"
  /\ syncs = <<>>

\* C13: every Tensor get_input or get_output returns has a buffer whose byte
\* length is the product of its shape's dimensions times the element size.
C13_ShapeMatchesBufferBytes ==
  last.has_tensor
    => BufferBytes(last.tensor.size) = Prod(last.tensor.shape) * SizeofT

\* C14: construction is all-or-nothing: when the allocation of any one response
\* fails the constructor fails as a whole, and no Batch with fewer responses than
\* requests is ever there to take a get_input, get_output or finalize call.
C14_ConstructionAllOrNothing ==
  /\ construction.failed_at # 0
       => /\ ~construction.ok
          /\ ~Usable
          /\ last.op = "Batch" /\ last.status = "error"
          /\ calls = 0
          /\ responses_ = <<>>
          /\ Cmds = {}
  /\ Usable => Len(responses_) = Len(raw_requests)
  /\ calls > 0 => Len(responses_) = Len(raw_requests)

\* C14 witness: the allocation of the second of two responses failed and the
\* constructor threw.
C14_Witness ==
  /\ Len(raw_requests) = 2
  /\ construction.failed_at = 2
  /\ ~construction.ok
  /\ last.status = "error"

\* C15: when the collector's gather step fails, get_input fails with a fatal
\* error and returns no Tensor.
C15_GatherFailureIsFatal ==
  (last.op = "get_input" /\ last.gather_failed)
    => /\ last.status = "error"
       /\ ~last.has_tensor

\* C16: on a Batch with no requests the input shape resolves to the empty shape,
\* with no request consulted and no error raised.
C16_EmptyBatchEmptyShape ==
  requests_ = <<>>
    => /\ \A name \in InputNames :
            get_input_shape(name).ok /\ get_input_shape(name).shape = <<>>
       /\ last.op = "get_input"
            => /\ last.error # "IncompatibleShape"
               /\ last.has_tensor => last.tensor.shape = <<>>

\* C16 witness: get_input on a Batch without requests returned a Tensor of empty shape.
C16_Witness ==
  /\ raw_requests = <<>>
  /\ last.op = "get_input"
  /\ last.has_tensor
  /\ last.tensor.shape = <<>>

\* C17: two Batches on distinct streams share no mutable state: a call on one
\* leaves every field of the other as it was, enqueues nothing on the other's
\* stream and never synchronizes it, so each Batch proceeds as it would alone.
C17_BatchesDoNotInterfere ==
  [][calls' = calls + 1
       => /\ other' = other
          /\ stream_arg # other.stream_arg
          /\ queues'[other.stream_arg] = queues[other.stream_arg]
          /\ \A s \in AllStreams \ {stream_arg} : queues'[s] = queues[s]
          /\ syncs' = syncs \/ syncs' = Append(syncs, stream_arg)
          /\ UNCHANGED <<raw_requests, stream_arg, output_shape>>]_vars

\* C17 witness: one Batch has declared an output and finalized, with scatter
\* copies in its own stream and one synchronization, of that stream; in between
\* the other has gathered an input, with the gather copy in its own stream.
C17_Witness ==
  /\ other.construction.ok
  /\ \E s, t \in {stream_arg, other.stream_arg} :
       /\ s # t
       /\ syncs = <<s>>
       /\ \E p \in DOMAIN queues[s] : queues[s][p].kind = "scatter"
       /\ \A p \in DOMAIN queues[s] : queues[s][p].kind = "scatter"
       /\ \E p \in DOMAIN queues[t] : queues[t][p].kind = "gather"
       /\ \A p \in DOMAIN queues[t] : queues[t][p].kind = "gather"

\* C18: stream() is the handle supplied at construction in every state, and no
\* operation replaces it.
C18_StreamIsTheSuppliedOne ==
  [][stream = stream_arg /\ stream' = stream_arg /\ stream_arg' = stream_arg]_vars

\* C18 witness: the Batch has gathered, declared and finalized, with the stream
\* supplied at construction still the one handed out.
C18_Witness ==
  /\ calls = MaxCalls
  /\ finalize_calls > 0
  /\ outputs_declared > 0
  /\ stream = stream_arg
  /\ stream \in Streams

\* C19: the element count is the product of the dimensions starting from 1, so
\* on a Batch with no requests get_input asks the collector for sizeof(T) bytes,
\* and get_output with an empty metadata shape allocates one element.
C19_EmptyShapeCountsOne ==
  /\ (last.op = "get_input" /\ raw_requests = <<>> /\ last.reported # NoLocation)
       => last.size_bytes = SizeofT
  /\ (last.op = "get_output" /\ output_shape = <<>> /\ last.has_tensor)
       => last.tensor.size = 1

\* C19 witness: an output with an empty metadata shape declared over one element.
C19_Witness ==
  /\ last.op = "get_output"
  /\ output_shape = <<>>
  /\ last.has_tensor
  /\ last.tensor.size = 1

\* C20: the responder is shared by the Batch and every output Tensor get_output
\* returned: it is not released while the Batch or any such Tensor is alive, and
\* all output Tensors of a Batch refer to the one responder of that Batch.
C20_ResponderOutlivesItsUsers ==
  /\ (lifetime.batch_alive \/ lifetime.outputs_alive > 0) => ~lifetime.released
  /\ lifetime.use_count
       = (IF lifetime.batch_alive THEN 1 ELSE 0) + lifetime.outputs_alive
  /\ lifetime.released <=> lifetime.use_count = 0
  /\ \A k \in DOMAIN responder_.pending : responder_.pending[k].responder = "responder_"
  /\ (last.op = "get_output" /\ last.has_tensor) => last.tensor.responder = "responder_"

\* C20 witness: the Batch was destroyed while an output Tensor it returned is
\* still alive, and the responder is still there.
C20_Witness ==
  /\ construction.ok
  /\ ~lifetime.batch_alive
  /\ lifetime.outputs_alive > 0
  /\ lifetime.use_count = lifetime.outputs_alive
  /\ ~lifetime.released

====
